---- MODULE Spec2Model ----
(***************************************************************************)
(* A model of pliron's structural IR substrate: the def-use graph          *)
(* (src/src/value.rs) and BasicBlock with its intrusive operation list,    *)
(* iterator, arguments, deallocation hook and verifier                     *)
(* (src/src/basic_block.rs).                                               *)
(*                                                                         *)
(* Handles (Ptr<T>) are positive integers; None is 0.                      *)
(***************************************************************************)
EXTENDS Integers, Sequences, FiniteSets, TLC

None == 0

(* ---- bounds ---------------------------------------------------------- *)
\* number of values (defs) in the def-use graph
NumValues == 3
\* number of operand slots (each is addressed by one UseRef)
NumOperands == 2
\* calls of replace_all_uses_with made in one run
MaxRAUW == 2

\* number of Operation handles the arena hands out
NumOps == 3
\* number of BasicBlock handles the arena hands out
NumBlocks == 3
\* number of Region handles
NumRegions == 2
\* calls of next / next_back made on one iterator
MaxCalls == 4

Values == 1..NumValues
UseRefs == 1..NumOperands
Ops == 1..NumOps
Blocks == 1..NumBlocks
Regions == 1..NumRegions

VARIABLES
    \* ---- def-use graph ----
    uses,       \* uses[v]: Vec<UseRef>, the use-list owned by value v
    operands,   \* operands[u]: the operand slot UseRef u locates: [def, use] (NoOperand: not built)
    ncalls,     \* how many calls of replace_all_uses_with were started
    pc,         \* position inside replace_all_uses_with: "idle", "loop", "replace", "done"
    self,       \* the receiver of the running call (None outside a call)
    new_val,    \* the argument of the running call (None outside a call)
    idx,        \* position of the `for` loop in self's use-list (1-based)
    new_use,    \* the local `new_use` between line 29 and line 30 (NoUse otherwise)
    \* ---- history of the running call (ghost) ----
    uses0,      \* uses at the start of the call
    operands0,  \* operands at the start of the call
    addLog,     \* the add_use calls of this call, in order: <<[r, tok]>>
    replLog,    \* the UseRefs whose operand got replace_def in this call, in order
    \* ---- operations in blocks ----
    ol,         \* the op-lists: head/tail of each block (ops_list.first/last) and
                \* next/prev/container of each operation (block_links)
    it,         \* the one Iter under observation: [live, block, next, next_back, fault]
    itLog,      \* the calls made on it, in order: <<[call, ret]>>
    prevRun,    \* the last complete head-to-tail traversal by an earlier iterator
                \* over the lists as they are now: [block, seq, list] (ghost)
    lastRes,    \* the last call of Iter::last on the lists as they are now: the
                \* iterator it consumed and what it returned: [from, ret, fault] (ghost)
    vr,         \* the last call of BasicBlock::verify: its block, the outcome of each
                \* operation's own verify, the operations verified in order, the result
    \* ---- arena ----
    opArena,    \* the allocated Operation handles
    dl,         \* the running ArenaObj::dealloc of a block: [pc, block, ops, i, log]
    \* ---- blocks and regions ----
    bb,         \* bb[b]: the BasicBlock at handle b, or NoBlock while b is not allocated;
                \* its ops_list is in ol and its region_links are in rl
    given,      \* given[b]: the arg_types BasicBlock::new was called with (ghost)
    rl,         \* the block lists: head/tail of each region and next_block/prev_block/
                \* parent_region of each block (region_links)
    lastCall    \* the last list call on a block, when it was remove: the block and its
                \* handles before the call (ghost)

duVars == <<uses, operands, ncalls, pc, self, new_val, idx, new_use, uses0, operands0, addLog, replLog>>

itVars == <<it, itLog>>
obsVars == <<prevRun, lastRes>>
vrVars == <<vr>>
dlVars == <<opArena, dl>>
bbVars == <<bb, given>>
rgVars == <<rl, lastCall>>

vars == <<duVars, ol, itVars, obsVars, vrVars, dlVars, bbVars, rgVars>>

\* what the operations of one part of the program leave alone
notDU == <<ol, itVars, obsVars, vrVars, dlVars, bbVars, rgVars>>
notOpEdit == <<duVars, itVars, dlVars, bbVars, rgVars>>
notIter == <<duVars, ol, vrVars, dlVars, bbVars, rgVars>>
notVerify == <<duVars, ol, itVars, obsVars, dlVars, bbVars, rgVars>>
notDealloc == <<duVars, ol, itVars, obsVars, vrVars, given, rgVars>>
notBlkEdit == <<duVars, ol, itVars, obsVars, vrVars, dlVars, bbVars>>
notNew == <<duVars, itVars, obsVars, vrVars, dlVars, lastCall>>

(* ---- helpers --------------------------------------------------------- *)
Range(s) == {s[i] : i \in 1..Len(s)}

\* number of positions of s holding x
Count(s, x) == Cardinality({i \in 1..Len(s) : s[i] = x})

(* ====================================================================== *)
(* Def-use graph                                                            *)
(* ====================================================================== *)

\* Value::get_uses
get_uses(v) == uses[v]

\* The Use token add_use returns: it identifies the registration it made
\* (the def it was made on and the position in that def's use-list).
UseToken(v, us) == [def |-> v, use_idx |-> Len(us[v]) + 1]

\* Value::add_use: appends `r` to v's use-list; the token is UseToken(v, us).
add_use(us, v, r) == [us EXCEPT ![v] = Append(@, r)]

\* Operand::replace_def: the slot now holds the new token and refers to its def.
replace_def(ops, r, tok) == [ops EXCEPT ![r] = [def |-> tok.def, use |-> tok]]

\* UseRef::get_operand_mut(ctx): the operand slot the UseRef locates.
get_operand(r) == operands[r]

\* The def an operand slot refers to (None for a slot not built yet).
DefOf(ops, r) == ops[r].def

\* no token, and an operand slot that has not been built
NoUse == [def |-> None, use_idx |-> 0]
NoOperand == [def |-> None, use |-> NoUse]

NoUses == [v \in Values |-> <<>>]
NoOperands == [r \in UseRefs |-> NoOperand]

DUInit ==
    /\ uses = NoUses
    /\ operands = NoOperands
    /\ ncalls = 0
    /\ pc = "idle"
    /\ self = None
    /\ new_val = None
    /\ idx = 0
    /\ new_use = NoUse
    /\ uses0 = NoUses
    /\ operands0 = NoOperands
    /\ addLog = <<>>
    /\ replLog = <<>>

\* Building an operand that uses value v: the caller registers the use with
\* add_use and embeds the returned token in the operand slot.
BuildOperand(r, v) ==
    /\ pc \in {"idle", "done"}
    /\ operands[r] = NoOperand
    /\ uses' = add_use(uses, v, r)
    /\ operands' = [operands EXCEPT ![r] = [def |-> v, use |-> UseToken(v, uses)]]
    /\ pc' = "idle"
    /\ self' = None
    /\ new_val' = None
    /\ idx' = 0
    /\ new_use' = NoUse
    /\ uses0' = NoUses
    /\ operands0' = NoOperands
    /\ addLog' = <<>>
    /\ replLog' = <<>>
    /\ UNCHANGED ncalls
    /\ UNCHANGED notDU

\* replace_all_uses_with, line 26-27: entry; `uses` borrows self's use-list.
\* self and new_val are two exclusive borrows, so they are different values.
RAUW_Call(v, w) ==
    /\ pc \in {"idle", "done"}
    /\ v # w
    /\ ncalls < MaxRAUW
    /\ ncalls' = ncalls + 1
    /\ pc' = "loop"
    /\ self' = v
    /\ new_val' = w
    /\ idx' = 1
    /\ new_use' = NoUse
    /\ uses0' = uses
    /\ operands0' = operands
    /\ addLog' = <<>>
    /\ replLog' = <<>>
    /\ UNCHANGED <<uses, operands>>
    /\ UNCHANGED notDU

\* line 29 (a buggy variant): every iteration registers the first UseRef of the list
RAUW_AddUse_First ==
    /\ pc = "loop"
    /\ idx <= Len(uses[self])
    /\ new_use' = UseToken(new_val, uses)
    /\ uses' = add_use(uses, new_val, uses[self][1])
    /\ addLog' = Append(addLog, [r |-> uses[self][1], tok |-> UseToken(new_val, uses)])
    /\ pc' = "replace"
    /\ UNCHANGED <<operands, self, new_val, idx, uses0, operands0, replLog>>
    /\ UNCHANGED ncalls
    /\ UNCHANGED notDU

\* line 28-29: the loop takes the next UseRef of self's list and registers it
\* on new_val.  The loop iterates the borrowed vector, which nothing can change
\* while the borrow lives, so its length is the length at entry.
RAUW_AddUse ==
    /\ pc = "loop"
    /\ idx <= Len(uses[self])
    /\ new_use' = UseToken(new_val, uses)
    /\ uses' = add_use(uses, new_val, uses[self][idx])
    /\ addLog' = Append(addLog, [r |-> uses[self][idx], tok |-> UseToken(new_val, uses)])
    /\ pc' = "replace"
    /\ UNCHANGED <<operands, self, new_val, idx, uses0, operands0, replLog>>
    /\ UNCHANGED ncalls
    /\ UNCHANGED notDU

\* line 30 (a buggy variant): the operand slot is cleared instead of rewritten
RAUW_ReplaceDef_Clear ==
    /\ pc = "replace"
    /\ operands' = [operands EXCEPT ![uses[self][idx]] = NoOperand]
    /\ replLog' = Append(replLog, uses[self][idx])
    /\ idx' = idx + 1
    /\ new_use' = NoUse
    /\ pc' = "loop"
    /\ UNCHANGED <<uses, self, new_val, uses0, operands0, addLog>>
    /\ UNCHANGED ncalls
    /\ UNCHANGED notDU

\* line 30: the operand slot the UseRef locates is rewritten with new_use.
RAUW_ReplaceDef ==
    /\ pc = "replace"
    /\ operands' = replace_def(operands, uses[self][idx], new_use)
    /\ replLog' = Append(replLog, uses[self][idx])
    /\ idx' = idx + 1
    /\ new_use' = NoUse
    /\ pc' = "loop"
    /\ UNCHANGED <<uses, self, new_val, uses0, operands0, addLog>>
    /\ UNCHANGED ncalls
    /\ UNCHANGED notDU

\* line 31-32: the loop is over and the function returns.  Nothing removes an
\* entry from self's use-list.
RAUW_Return ==
    /\ pc = "loop"
    /\ idx > Len(uses[self])
    /\ pc' = "done"
    /\ UNCHANGED <<uses, operands, self, new_val, idx, new_use, uses0, operands0,
                   addLog, replLog>>
    /\ UNCHANGED ncalls
    /\ UNCHANGED notDU

DUNext ==
    \/ \E r \in UseRefs, v \in Values : BuildOperand(r, v)
    \/ \E v \in Values, w \in Values : RAUW_Call(v, w)
    \/ RAUW_AddUse
    \/ RAUW_ReplaceDef
    \/ RAUW_Return

(* ---- claims about replace_all_uses_with ------------------------------ *)

\* C1: when replace_all_uses_with(v, w) finishes, v's use-list is empty.
C1_SelfDrained == pc = "done" => Len(get_uses(self)) = 0

\* C2: when replace_all_uses_with(v, w) finishes, w's use-list is its list at
\* the start of the call followed by v's list at the start of the call, in
\* v's order (so it has n + m entries), and the add_use calls of the call
\* are exactly one per entry of v's list, in that order, all on w.
C2_TargetGainsUses ==
    pc = "done" =>
        /\ get_uses(new_val) = uses0[new_val] \o uses0[self]
        /\ Len(get_uses(new_val)) = Len(uses0[new_val]) + Len(uses0[self])
        /\ Len(addLog) = Len(uses0[self])
        /\ \A i \in 1..Len(addLog) :
              /\ addLog[i].r = uses0[self][i]
              /\ addLog[i].tok.def = new_val
              /\ addLog[i].tok.use_idx = Len(uses0[new_val]) + i
              /\ get_uses(new_val)[addLog[i].tok.use_idx] = addLog[i].r

\* a call that moved at least two uses onto a value that already had one
C2_Witness ==
    /\ pc = "done"
    /\ Len(uses0[self]) >= 2
    /\ Len(uses0[new_val]) >= 1

\* C3: when replace_all_uses_with(v, w) finishes, every operand slot that
\* referred to v at the start refers to w and stores the token w.add_use
\* returned for its UseRef, and replace_def was called once per former use
\* of v and on no operand that did not refer to v.
C3_OperandsRewired ==
    pc = "done" =>
        /\ \A r \in UseRefs :
              DefOf(operands0, r) = self =>
                  /\ DefOf(operands, r) = new_val
                  /\ \E i \in 1..Len(addLog) :
                        addLog[i].r = r /\ operands[r].use = addLog[i].tok
        /\ \A r \in UseRefs :
              Count(replLog, r) = (IF DefOf(operands0, r) = self THEN 1 ELSE 0)

\* C10: at every step of replace_all_uses_with(v, w), an operand slot that
\* referred to v at the start refers to v or to w, and the value it refers
\* to has the slot's UseRef in its use-list.
C10_NoDanglingOperand ==
    pc \in {"loop", "replace", "done"} =>
        \A r \in UseRefs :
            DefOf(operands0, r) = self =>
                /\ DefOf(operands, r) \in {self, new_val}
                /\ r \in Range(get_uses(DefOf(operands, r)))

\* in the middle of a call, one slot already refers to w and another still to v
C10_Witness ==
    /\ pc \in {"loop", "replace"}
    /\ \E r1, r2 \in UseRefs :
          /\ DefOf(operands0, r1) = self /\ DefOf(operands, r1) = new_val
          /\ DefOf(operands0, r2) = self /\ DefOf(operands, r2) = self

\* C15: when replace_all_uses_with(v, w) finishes, the use-list of every
\* value other than v and w is as it was at the start of the call, and so is
\* every operand slot that did not refer to v at the start (slots that
\* already referred to w included).
C15_OthersUntouched ==
    pc = "done" =>
        /\ \A x \in Values \ {self, new_val} : get_uses(x) = uses0[x]
        /\ \A r \in UseRefs :
              DefOf(operands0, r) # self => get_operand(r) = operands0[r]

(* ====================================================================== *)
(* Intrusive linked list (LinkedList / ContainsLinkedList)                  *)
(* ====================================================================== *)
\* A list structure L is a record of handle-valued fields:
\*   L.head[c], L.tail[c]                   of each container c
\*   L.next[e], L.prev[e], L.container[e]   of each element e

\* ContainsLinkedList::get_head / get_tail / set_head / set_tail
get_head(L, c) == L.head[c]
get_tail(L, c) == L.tail[c]
set_head(L, c, h) == [L EXCEPT !.head[c] = h]
\* set_tail (a buggy variant): writes ops_list.first
set_tail_WritesFirst(L, c, t) == [L EXCEPT !.head[c] = t]
set_tail(L, c, t) == [L EXCEPT !.tail[c] = t]

\* LinkedList::get_next / get_prev / get_container and their setters
get_next(L, e) == L.next[e]
get_prev(L, e) == L.prev[e]
get_container(L, e) == L.container[e]
set_next(L, e, n) == [L EXCEPT !.next[e] = n]
\* set_prev (a buggy variant): writes the next handle
set_prev_WritesNext(L, e, p) == [L EXCEPT !.next[e] = p]
set_prev(L, e, p) == [L EXCEPT !.prev[e] = p]
set_container(L, e, c) == [L EXCEPT !.container[e] = c]

\* the list structure with every container empty and every element unlinked
EmptyLinks(Cs, Es) ==
    [head |-> [c \in Cs |-> None], tail |-> [c \in Cs |-> None],
     next |-> [e \in Es |-> None], prev |-> [e \in Es |-> None],
     container |-> [e \in Es |-> None]]

\* an element is unlinked when its three handles are None
Unlinked(L, e) ==
    get_next(L, e) = None /\ get_prev(L, e) = None /\ get_container(L, e) = None

\* insert_at_front(container, e)
insert_at_front(L, c, e) ==
    LET head == get_head(L, c)
        L1 == IF head # None THEN set_prev(L, head, e) ELSE set_tail(L, c, e)
        L2 == set_next(L1, e, head)
        L3 == set_head(L2, c, e)
    IN  set_container(L3, e, c)

\* insert_at_back(container, e)
insert_at_back(L, c, e) ==
    LET tail == get_tail(L, c)
        L1 == IF tail # None THEN set_next(L, tail, e) ELSE set_head(L, c, e)
        L2 == set_prev(L1, e, tail)
        L3 == set_tail(L2, c, e)
    IN  set_container(L3, e, c)

\* insert_after(e, mark): e becomes the successor of mark
insert_after(L, e, mark) ==
    LET c == get_container(L, mark)
        next == get_next(L, mark)
        L1 == IF next # None THEN set_prev(L, next, e) ELSE set_tail(L, c, e)
        L2 == set_next(L1, e, next)
        L3 == set_prev(L2, e, mark)
        L4 == set_next(L3, mark, e)
    IN  set_container(L4, e, c)

\* insert_before(e, mark): e becomes the predecessor of mark
insert_before(L, e, mark) ==
    LET c == get_container(L, mark)
        prev == get_prev(L, mark)
        L1 == IF prev # None THEN set_next(L, prev, e) ELSE set_head(L, c, e)
        L2 == set_prev(L1, e, prev)
        L3 == set_next(L2, e, mark)
        L4 == set_prev(L3, mark, e)
    IN  set_container(L4, e, c)

\* remove(e): splices e out and clears its own handles; e stays allocated
remove(L, e) ==
    LET c == get_container(L, e)
        next == get_next(L, e)
        prev == get_prev(L, e)
        L1 == IF next # None THEN set_prev(L, next, prev) ELSE set_tail(L, c, prev)
        L2 == IF prev # None THEN set_next(L1, prev, next) ELSE set_head(L1, c, next)
        L3 == set_next(L2, e, None)
        L4 == set_prev(L3, e, None)
    IN  set_container(L4, e, None)

RECURSIVE FollowNext(_, _, _)
\* the handles met by following next from x, at most `fuel` of them
FollowNext(L, x, fuel) ==
    IF x = None \/ fuel = 0 THEN <<>>
    ELSE <<x>> \o FollowNext(L, get_next(L, x), fuel - 1)

RECURSIVE FollowPrev(_, _, _)
\* the handles met by following prev from x, at most `fuel` of them
FollowPrev(L, x, fuel) ==
    IF x = None \/ fuel = 0 THEN <<>>
    ELSE <<x>> \o FollowPrev(L, get_prev(L, x), fuel - 1)

\* forward traversal of container c: next links from head
Forward(L, c) == FollowNext(L, get_head(L, c), Cardinality(DOMAIN L.next) + 1)
\* backward traversal of container c: prev links from tail
Backward(L, c) == FollowPrev(L, get_tail(L, c), Cardinality(DOMAIN L.prev) + 1)

Reverse(s) == [i \in 1..Len(s) |-> s[Len(s) + 1 - i]]

(* ====================================================================== *)
(* BasicBlock: creation and arguments; the blocks of a Region               *)
(* ====================================================================== *)

\* Ptr<TypeObj>: the types of block arguments are opaque handles
TypeObjs == {1, 2}
\* BasicBlock::new is called with at most this many argument types
MaxArgs == 2

\* the lists of argument types BasicBlock::new is called with
RECURSIVE SeqsUpTo(_, _)
SeqsUpTo(S, n) ==
    IF n = 0 THEN {<<>>}
    ELSE SeqsUpTo(S, n - 1) \cup
         {Append(q, x) : q \in {q \in SeqsUpTo(S, n - 1) : Len(q) = n - 1}, x \in S}

ArgTypeLists == SeqsUpTo(TypeObjs, MaxArgs)

\* an arena slot that holds no block
NoBlock == [alloc |-> FALSE, self_ptr |-> None, label |-> None, args |-> <<>>,
            preds |-> <<>>, attributes |-> {}]

\* BasicBlock::new (a buggy variant): the arguments are built before the
\* block's handle is known and never patched
new_NoSelfHandle(b, label, arg_types) ==
    [alloc |-> TRUE, self_ptr |-> b, label |-> label,
     args |-> [i \in 1..Len(arg_types) |->
                 [def |-> <<>>, def_block |-> None, arg_idx |-> i - 1,
                  ty |-> arg_types[i]]],
     preds |-> <<>>, attributes |-> {}]

\* BasicBlock::new (a buggy variant): arguments are numbered from 1
new_OneBased(b, label, arg_types) ==
    [alloc |-> TRUE, self_ptr |-> b, label |-> label,
     args |-> [i \in 1..Len(arg_types) |->
                 [def |-> <<>>, def_block |-> b, arg_idx |-> i, ty |-> arg_types[i]]],
     preds |-> <<>>, attributes |-> {}]

\* BasicBlock::new: the block at the handle b the arena allocated.  Its
\* arguments are numbered from 0 in the order of arg_types; a DefNode is
\* its (empty) use-list.
new(b, label, arg_types) ==
    [alloc |-> TRUE, self_ptr |-> b, label |-> label,
     args |-> [i \in 1..Len(arg_types) |->
                 [def |-> <<>>, def_block |-> b, arg_idx |-> i - 1, ty |-> arg_types[i]]],
     preds |-> <<>>, attributes |-> {}]

\* From<&BlockArgument> for Value: Value::BlockArgument { block, arg_idx }
ValueFrom(arg) == [block |-> arg.def_block, arg_idx |-> arg.arg_idx]

\* BasicBlock::get_argument: Option<Value> as a sequence, <<>> for None.
\* Vec::get(arg_idx) is the element at 0-based index arg_idx, if any.
get_argument(B, b, arg_idx) ==
    IF arg_idx < Len(B[b].args) THEN <<ValueFrom(B[b].args[arg_idx + 1])>> ELSE <<>>

\* BasicBlock::get_num_arguments
get_num_arguments(B, b) == Len(B[b].args)

\* no remove call recorded
NoCall == [op |-> "none", e |-> None, container |-> None, prev |-> None, next |-> None]

\* a call of BasicBlock::new: the arena allocates a free handle; the new
\* block has OpsInBlock::new_empty() and RegionLinks::new_unlinked()
BasicBlock_new(b, label, arg_types) ==
    /\ ~bb[b].alloc
    /\ bb' = [bb EXCEPT ![b] = new(b, label, arg_types)]
    /\ given' = [given EXCEPT ![b] = arg_types]
    /\ ol' = set_tail(set_head(ol, b, None), b, None)
    /\ rl' = set_container(set_prev(set_next(rl, b, None), b, None), b, None)
    /\ UNCHANGED notNew

BlockArgsNext ==
    \E b \in Blocks, arg_types \in ArgTypeLists : BasicBlock_new(b, None, arg_types)

Blk_insert_at_front(b, r) ==
    /\ bb[b].alloc
    /\ Unlinked(rl, b)
    /\ rl' = insert_at_front(rl, r, b)
    /\ lastCall' = NoCall
    /\ UNCHANGED notBlkEdit

Blk_insert_at_back(b, r) ==
    /\ bb[b].alloc
    /\ Unlinked(rl, b)
    /\ rl' = insert_at_back(rl, r, b)
    /\ lastCall' = NoCall
    /\ UNCHANGED notBlkEdit

Blk_insert_after(b, mark) ==
    /\ bb[b].alloc
    /\ Unlinked(rl, b)
    /\ get_container(rl, mark) # None
    /\ rl' = insert_after(rl, b, mark)
    /\ lastCall' = NoCall
    /\ UNCHANGED notBlkEdit

Blk_insert_before(b, mark) ==
    /\ bb[b].alloc
    /\ Unlinked(rl, b)
    /\ get_container(rl, mark) # None
    /\ rl' = insert_before(rl, b, mark)
    /\ lastCall' = NoCall
    /\ UNCHANGED notBlkEdit

Blk_remove(b) ==
    /\ get_container(rl, b) # None
    /\ rl' = remove(rl, b)
    /\ lastCall' = [op |-> "remove", e |-> b, container |-> get_container(rl, b),
                    prev |-> get_prev(rl, b), next |-> get_next(rl, b)]
    /\ UNCHANGED notBlkEdit

RegionNext ==
    \/ \E b \in Blocks, r \in Regions : Blk_insert_at_front(b, r)
    \/ \E b \in Blocks, r \in Regions : Blk_insert_at_back(b, r)
    \/ \E b \in Blocks, mark \in Blocks : Blk_insert_after(b, mark)
    \/ \E b \in Blocks, mark \in Blocks : Blk_insert_before(b, mark)
    \/ \E b \in Blocks : Blk_remove(b)

\* a sequence without a repeated element
NoDuplicates(q) == \A i, j \in 1..Len(q) : q[i] = q[j] => i = j

\* C6: in every state reached by inserts and removes, a block linked into
\* a region's list has that region as its container handle and is in no
\* other list (and once only in its own), a block in no list has prev, next
\* and container None; and right after remove(e), e has prev, next and
\* container None, its former neighbours (or the region's head / tail) are
\* linked to each other, and e is still allocated.
C6_ContainerHandlesAndRemove ==
    /\ \A r \in Regions :
          /\ NoDuplicates(Forward(rl, r))
          /\ \A b \in Range(Forward(rl, r)) : get_container(rl, b) = r
    /\ \A b \in Blocks :
          /\ Cardinality({r \in Regions : b \in Range(Forward(rl, r))}) <= 1
          /\ get_container(rl, b) # None =>
                b \in Range(Forward(rl, get_container(rl, b)))
          /\ get_container(rl, b) = None => Unlinked(rl, b)
    /\ lastCall.op = "remove" =>
          /\ Unlinked(rl, lastCall.e)
          /\ IF lastCall.prev # None
             THEN get_next(rl, lastCall.prev) = lastCall.next
             ELSE get_head(rl, lastCall.container) = lastCall.next
          /\ IF lastCall.next # None
             THEN get_prev(rl, lastCall.next) = lastCall.prev
             ELSE get_tail(rl, lastCall.container) = lastCall.prev
          /\ bb[lastCall.e].alloc

\* a block removed from between two others, while the other region holds nothing
C6_Witness ==
    /\ lastCall.op = "remove"
    /\ lastCall.prev # None
    /\ lastCall.next # None
    /\ Forward(rl, lastCall.container) = <<lastCall.prev, lastCall.next>>

\* C7: a block created with k argument types has get_num_arguments() = k;
\* get_argument(i) is Some(BlockArgument{block: b, arg_idx: i}) for i < k and
\* None for i >= k, in every state of the block's life.
C7_ArgumentIdentity ==
    \A b \in Blocks :
        bb[b].alloc =>
            /\ get_num_arguments(bb, b) = Len(given[b])
            /\ \A i \in 0..(MaxArgs + 1) :
                  get_argument(bb, b, i) =
                      IF i < Len(given[b]) THEN <<[block |-> b, arg_idx |-> i]>>
                      ELSE <<>>

\* two blocks alive, one with two arguments and one with none
C7_Witness ==
    \E b1, b2 \in Blocks :
        /\ bb[b1].alloc /\ Len(given[b1]) = 2
        /\ bb[b2].alloc /\ Len(given[b2]) = 0
        /\ get_argument(bb, b1, 1) = <<[block |-> b1, arg_idx |-> 1]>>
        /\ get_argument(bb, b1, 2) = <<>>

NoVerify == [done |-> FALSE, block |-> None, ok |-> [o \in Ops |-> TRUE],
             visited |-> <<>>, res |-> "none", err |-> None]

NoDealloc == [pc |-> "idle", block |-> None, ops |-> <<>>, i |-> 0, log |-> <<>>]

(* ====================================================================== *)
(* Operations in a BasicBlock, and the block's Iter                         *)
(* ====================================================================== *)

NoIter == [live |-> FALSE, block |-> None, next |-> None, next_back |-> None,
           fault |-> FALSE]

\* no traversal and no call of last recorded
NoRun == [block |-> None, seq |-> <<>>, list |-> <<>>]
NoLast == [from |-> NoIter, ret |-> None, fault |-> FALSE]

\* no iterator is live and no deallocation is under way
OpsAtRest == ~it.live /\ dl.pc = "idle"

Op_insert_at_front(o, b) ==
    /\ OpsAtRest
    /\ Unlinked(ol, o)
    /\ ol' = insert_at_front(ol, b, o)
    /\ vr' = NoVerify
    /\ prevRun' = NoRun
    /\ lastRes' = NoLast
    /\ UNCHANGED notOpEdit

Op_insert_at_back(o, b) ==
    /\ OpsAtRest
    /\ Unlinked(ol, o)
    /\ ol' = insert_at_back(ol, b, o)
    /\ vr' = NoVerify
    /\ prevRun' = NoRun
    /\ lastRes' = NoLast
    /\ UNCHANGED notOpEdit

Op_insert_after(o, mark) ==
    /\ OpsAtRest
    /\ Unlinked(ol, o)
    /\ get_container(ol, mark) # None
    /\ ol' = insert_after(ol, o, mark)
    /\ vr' = NoVerify
    /\ prevRun' = NoRun
    /\ lastRes' = NoLast
    /\ UNCHANGED notOpEdit

Op_insert_before(o, mark) ==
    /\ OpsAtRest
    /\ Unlinked(ol, o)
    /\ get_container(ol, mark) # None
    /\ ol' = insert_before(ol, o, mark)
    /\ vr' = NoVerify
    /\ prevRun' = NoRun
    /\ lastRes' = NoLast
    /\ UNCHANGED notOpEdit

Op_remove(o) ==
    /\ OpsAtRest
    /\ get_container(ol, o) # None
    /\ ol' = remove(ol, o)
    /\ vr' = NoVerify
    /\ prevRun' = NoRun
    /\ lastRes' = NoLast
    /\ UNCHANGED notOpEdit

\* BasicBlock::iter (a buggy variant): first and last are taken for each other
iter_Swapped(L, b) ==
    [live |-> TRUE, block |-> b, next |-> get_tail(L, b),
     next_back |-> get_head(L, b), fault |-> FALSE]

\* BasicBlock::iter: both cursors are read from the block's ops_list
iter(L, b) ==
    [live |-> TRUE, block |-> b, next |-> get_head(L, b),
     next_back |-> get_tail(L, b), fault |-> FALSE]

\* a call of BasicBlock::iter that creates the iterator under observation
BasicBlock_iter(b) ==
    /\ OpsAtRest
    /\ it' = iter(ol, b)
    /\ itLog' = <<>>
    /\ prevRun' = IF prevRun.block = b THEN prevRun ELSE NoRun
    /\ lastRes' = NoLast
    /\ UNCHANGED notIter

\* Iter::next and Iter::next_back as functions of the list structure L and the
\* iterator I: [it |-> the iterator after the call, ret |-> the handle
\* returned (None for Option::None), fault |-> whether an expect panicked].

\* Iter::next (a buggy variant): the forward cursor always follows next_op
iter_next_NoClear(L, I) ==
    IF I.next = None THEN [it |-> I, ret |-> None, fault |-> FALSE]
    ELSE [it |-> [I EXCEPT !.next = get_next(L, I.next)], ret |-> I.next,
          fault |-> FALSE]

\* Iter::next (a buggy variant): on meeting next_back only the forward cursor
\* is cleared
iter_next_ClearsOwn(L, I) ==
    IF I.next = None THEN [it |-> I, ret |-> None, fault |-> FALSE]
    ELSE IF I.next_back = None
    THEN [it |-> [I EXCEPT !.fault = TRUE], ret |-> None, fault |-> TRUE]
    ELSE IF I.next = I.next_back
    THEN [it |-> [I EXCEPT !.next = None], ret |-> I.next, fault |-> FALSE]
    ELSE [it |-> [I EXCEPT !.next = get_next(L, I.next)], ret |-> I.next,
          fault |-> FALSE]

\* Iter::next
iter_next(L, I) ==
    IF I.next = None THEN [it |-> I, ret |-> None, fault |-> FALSE]
    ELSE IF I.next_back = None
    THEN \* expect("Some(next) => Some(next_back) violated") panics
         [it |-> [I EXCEPT !.fault = TRUE], ret |-> None, fault |-> TRUE]
    ELSE IF I.next = I.next_back
    THEN [it |-> [I EXCEPT !.next = None, !.next_back = None], ret |-> I.next,
          fault |-> FALSE]
    ELSE [it |-> [I EXCEPT !.next = get_next(L, I.next)], ret |-> I.next,
          fault |-> FALSE]

\* DoubleEndedIterator::next_back (a buggy variant): on meeting next the
\* backward cursor follows prev_op like at any other step
iter_next_back_NoClear(L, I) ==
    IF I.next_back = None THEN [it |-> I, ret |-> None, fault |-> FALSE]
    ELSE IF I.next = None
    THEN [it |-> [I EXCEPT !.fault = TRUE], ret |-> None, fault |-> TRUE]
    ELSE [it |-> [I EXCEPT !.next_back = get_prev(L, I.next_back)],
          ret |-> I.next_back, fault |-> FALSE]

\* DoubleEndedIterator::next_back
iter_next_back(L, I) ==
    IF I.next_back = None THEN [it |-> I, ret |-> None, fault |-> FALSE]
    ELSE IF I.next = None
    THEN \* expect("Some(next_back) => Some(next) violated") panics
         [it |-> [I EXCEPT !.fault = TRUE], ret |-> None, fault |-> TRUE]
    ELSE IF I.next_back = I.next
    THEN [it |-> [I EXCEPT !.next_back = None, !.next = None], ret |-> I.next_back,
          fault |-> FALSE]
    ELSE [it |-> [I EXCEPT !.next_back = get_prev(L, I.next_back)],
          ret |-> I.next_back, fault |-> FALSE]

\* a call of next (a buggy variant): the operation yielded is unlinked
Iter_next_Unlinks ==
    /\ it.live /\ ~it.fault /\ Len(itLog) < MaxCalls
    /\ LET s == iter_next(ol, it)
       IN  /\ it' = s.it
           /\ itLog' = IF s.fault THEN itLog
                       ELSE Append(itLog, [call |-> "next", ret |-> s.ret])
           /\ ol' = IF s.ret # None THEN remove(ol, s.ret) ELSE ol
    /\ UNCHANGED obsVars
    /\ UNCHANGED <<duVars, vrVars, dlVars, bbVars, rgVars>>

\* a call of next on the iterator under observation
Iter_next ==
    /\ it.live /\ ~it.fault /\ Len(itLog) < MaxCalls
    /\ LET s == iter_next(ol, it)
       IN  /\ it' = s.it
           /\ itLog' = IF s.fault THEN itLog
                       ELSE Append(itLog, [call |-> "next", ret |-> s.ret])
    /\ UNCHANGED obsVars
    /\ UNCHANGED notIter

\* a call of next_back on the iterator under observation
Iter_next_back ==
    /\ it.live /\ ~it.fault /\ Len(itLog) < MaxCalls
    /\ LET s == iter_next_back(ol, it)
       IN  /\ it' = s.it
           /\ itLog' = IF s.fault THEN itLog
                       ELSE Append(itLog, [call |-> "next_back", ret |-> s.ret])
    /\ UNCHANGED obsVars
    /\ UNCHANGED notIter

\* the calls of log are all next and the last of them returned None
CompleteForward(log) ==
    /\ log # <<>>
    /\ \A i \in 1..Len(log) : log[i].call = "next"
    /\ log[Len(log)].ret = None

\* the iterator goes out of scope; a complete head-to-tail traversal is
\* remembered
Iter_drop ==
    /\ it.live
    /\ it' = NoIter
    /\ itLog' = <<>>
    /\ prevRun' = IF CompleteForward(itLog)
                  THEN [block |-> it.block,
                        seq |-> SelectSeq([i \in 1..Len(itLog) |-> itLog[i].ret],
                                          LAMBDA o : o # None),
                        list |-> ol]
                  ELSE prevRun
    /\ lastRes' = NoLast
    /\ UNCHANGED notIter

\* Iter::last (a buggy variant): takes the element at the front
iter_last_Front(L, I) == iter_next(L, I)

\* Iter::last: self.next_back()
iter_last(L, I) == iter_next_back(L, I)

\* a call of last on the iterator under observation, which it consumes
Iter_last ==
    /\ it.live /\ ~it.fault
    /\ LET s == iter_last(ol, it)
       IN  lastRes' = [from |-> it, ret |-> s.ret, fault |-> s.fault]
    /\ it' = NoIter
    /\ itLog' = <<>>
    /\ prevRun' = NoRun
    /\ UNCHANGED notIter

OpNext ==
    \/ \E o \in Ops, b \in Blocks : Op_insert_at_front(o, b)
    \/ \E o \in Ops, b \in Blocks : Op_insert_at_back(o, b)
    \/ \E o \in Ops, mark \in Ops : Op_insert_after(o, mark)
    \/ \E o \in Ops, mark \in Ops : Op_insert_before(o, mark)
    \/ \E o \in Ops : Op_remove(o)
    \/ \E b \in Blocks : BasicBlock_iter(b)
    \/ Iter_next
    \/ Iter_next_back
    \/ Iter_drop
    \/ Iter_last

(* ====================================================================== *)
(* Verify for BasicBlock                                                    *)
(* ====================================================================== *)

RECURSIVE try_for_each_All(_, _, _, _, _)
\* try_for_each (a buggy variant): the walk goes on after a failure and
\* reports the last one
try_for_each_All(L, I, ok, visited, err) ==
    LET s == iter_next(L, I)
    IN  IF s.fault THEN [res |-> "panic", err |-> None, visited |-> visited]
        ELSE IF s.ret = None
        THEN [res |-> IF err = None THEN "Ok" ELSE "Err", err |-> err,
              visited |-> visited]
        ELSE try_for_each_All(L, s.it, ok, Append(visited, s.ret),
                              IF ok[s.ret] THEN err ELSE s.ret)

RECURSIVE try_for_each(_, _, _, _, _)
\* Iterator::try_for_each(|op| op.deref(ctx).verify(ctx)) on iterator I: takes
\* operations with next() and returns at the first Err.  ok[o] is the outcome
\* of Operation::verify on o; an error is identified by its operation.
try_for_each(L, I, ok, visited, err) ==
    LET s == iter_next(L, I)
    IN  IF s.fault THEN [res |-> "panic", err |-> None, visited |-> visited]
        ELSE IF s.ret = None THEN [res |-> "Ok", err |-> None, visited |-> visited]
        ELSE IF ok[s.ret]
        THEN try_for_each(L, s.it, ok, Append(visited, s.ret), err)
        ELSE [res |-> "Err", err |-> s.ret, visited |-> Append(visited, s.ret)]

\* BasicBlock::verify (a buggy variant): every operation is verified
verify_All(L, b, ok) == try_for_each_All(L, iter(L, b), ok, <<>>, None)

\* BasicBlock::verify
verify(L, b, ok) == try_for_each(L, iter(L, b), ok, <<>>, None)

\* a call of BasicBlock::verify on block b, the operations verifying as ok
\* says (only the outcomes of the block's own operations matter)
Verify(b, ok) ==
    /\ \A o \in Ops : get_container(ol, o) # b => ok[o]
    /\ LET v == verify(ol, b, ok)
       IN  vr' = [done |-> TRUE, block |-> b, ok |-> ok, visited |-> v.visited,
                  res |-> v.res, err |-> v.err]
    /\ UNCHANGED notVerify

VerifyNext ==
    \/ \E o \in Ops, b \in Blocks : Op_insert_at_front(o, b)
    \/ \E o \in Ops, b \in Blocks : Op_insert_at_back(o, b)
    \/ \E o \in Ops, mark \in Ops : Op_insert_after(o, mark)
    \/ \E o \in Ops, mark \in Ops : Op_insert_before(o, mark)
    \/ \E o \in Ops : Op_remove(o)
    \/ \E b \in Blocks, ok \in [Ops -> BOOLEAN] : Verify(b, ok)

\* C9: verify visits the operations in head-to-tail order; it returns Ok
\* exactly when every operation of the list verifies; otherwise it returns
\* the error of the first failing operation in list order and has verified
\* no operation after it.
C9_VerifyStopsAtFirstFailure ==
    vr.done =>
        LET F == Forward(ol, vr.block)
            bad == {i \in 1..Len(F) : ~vr.ok[F[i]]}
        IN  /\ (vr.res = "Ok") <=> (bad = {})
            /\ bad = {} => vr.visited = F /\ vr.err = None
            /\ bad # {} =>
                  LET k == CHOOSE i \in bad : \A j \in bad : i <= j
                  IN  /\ vr.res = "Err"
                      /\ vr.err = F[k]
                      /\ vr.visited = SubSeq(F, 1, k)

\* a three-element list whose second and third operations both fail
C9_Witness ==
    /\ vr.done
    /\ Len(Forward(ol, vr.block)) = 3
    /\ LET F == Forward(ol, vr.block)
       IN  vr.ok[F[1]] /\ ~vr.ok[F[2]] /\ ~vr.ok[F[3]]
    /\ Len(vr.visited) = 2

(* ====================================================================== *)
(* ArenaObj for BasicBlock: deallocation                                    *)
(* ====================================================================== *)

RECURSIVE collect(_, _)
\* Iterator::collect::<Vec<_>>(): next() until it returns None
collect(L, I) ==
    LET s == iter_next(L, I)
    IN  IF s.fault \/ s.ret = None THEN <<>>
        ELSE <<s.ret>> \o collect(L, s.it)

\* BasicBlock::remove_references: todo!() panics
remove_references(b) == "panic"

\* ArenaObj::dealloc(ptr, ctx) on a block starts with dealloc_sub_objects,
\* whose first statement collects the block's operations.
Block_dealloc(b) ==
    /\ dl.pc = "idle"
    /\ bb[b].alloc
    /\ dl' = [pc |-> "sub", block |-> b, ops |-> collect(ol, iter(ol, b)), i |-> 1,
              log |-> <<>>]
    /\ UNCHANGED <<bb, opArena>>
    /\ UNCHANGED notDealloc

\* dealloc_sub_objects, the loop body: ArenaObj::dealloc(op, ctx) frees the
\* operation's slot.
Block_dealloc_op ==
    /\ dl.pc = "sub"
    /\ dl.i <= Len(dl.ops)
    /\ opArena' = opArena \ {dl.ops[dl.i]}
    /\ dl' = [dl EXCEPT !.i = @ + 1, !.log = Append(@, dl.ops[dl.i])]
    /\ UNCHANGED bb
    /\ UNCHANGED notDealloc

\* after dealloc_sub_objects: remove_references, and then the block's slot
\* is freed.  A panic ends the call, and the program, before the slot is freed.
Block_dealloc_finish ==
    /\ dl.pc = "sub"
    /\ dl.i > Len(dl.ops)
    /\ IF remove_references(dl.block) = "panic"
       THEN /\ dl' = [dl EXCEPT !.pc = "fault"]
            /\ bb' = bb
       ELSE /\ dl' = [dl EXCEPT !.pc = "done"]
            /\ bb' = [bb EXCEPT ![dl.block] = NoBlock]
    /\ UNCHANGED opArena
    /\ UNCHANGED notDealloc

DeallocNext ==
    \/ \E o \in Ops, b \in Blocks : Op_insert_at_front(o, b)
    \/ \E o \in Ops, b \in Blocks : Op_insert_at_back(o, b)
    \/ \E o \in Ops, mark \in Ops : Op_insert_after(o, mark)
    \/ \E o \in Ops, mark \in Ops : Op_insert_before(o, mark)
    \/ \E o \in Ops : Op_remove(o)
    \/ \E b \in Blocks : Block_dealloc(b)
    \/ Block_dealloc_op
    \/ Block_dealloc_finish

\* C8: when the deallocation of a block whose op-list held p operations has
\* ended, exactly the p operations linked in the block at the start were
\* deallocated, each once, and the block's own slot was freed after them.
C8_BlockDeallocCascades ==
    dl.pc \in {"done", "fault"} =>
        /\ dl.log = Forward(ol, dl.block)
        /\ \A i, j \in 1..Len(dl.log) : dl.log[i] = dl.log[j] => i = j
        /\ Range(dl.log) \cap opArena = {}
        /\ dl.pc = "done"
        /\ ~bb[dl.block].alloc

\* the part of C8 the code does perform: the operations of the block are
\* deallocated, each once, before the call reaches remove_references
C8_OperationsDeallocated ==
    dl.pc \in {"done", "fault"} =>
        /\ dl.log = Forward(ol, dl.block)
        /\ \A i, j \in 1..Len(dl.log) : dl.log[i] = dl.log[j] => i = j
        /\ Range(dl.log) \cap opArena = {}

(* ---- claims about the op-list and its iterator ----------------------- *)

\* the operations a kind of call has yielded so far, in order
RECURSIVE Yields(_, _)
Yields(log, call) ==
    IF log = <<>> THEN <<>>
    ELSE IF log[1].call = call /\ log[1].ret # None
         THEN <<log[1].ret>> \o Yields(Tail(log), call)
         ELSE Yields(Tail(log), call)

\* C4: on one iterator over an n-element list (not mutated meanwhile), in
\* any interleaving, each of the first n calls yields an operation; next has
\* yielded a prefix of the head-to-tail order and next_back a prefix of the
\* tail-to-head order, together at most n operations and none twice; both
\* cursors are Some while fewer than n operations are yielded and both are
\* None as soon as the n-th is yielded (the state right after that call).
C4_IterVisitsEachOnce ==
    it.live =>
        LET F == Forward(ol, it.block)
            n == Len(F)
            fw == Yields(itLog, "next")
            bw == Yields(itLog, "next_back")
        IN  /\ ~it.fault
            /\ Len(fw) + Len(bw) <= n
            /\ fw = SubSeq(F, 1, Len(fw))
            /\ bw = SubSeq(Reverse(F), 1, Len(bw))
            /\ \A i \in 1..Len(itLog) : i <= n => itLog[i].ret # None
            /\ Len(fw) + Len(bw) < n => it.next # None /\ it.next_back # None
            /\ Len(fw) + Len(bw) = n => it.next = None /\ it.next_back = None

\* a three-element list traversed from both ends, all three yielded
C4_Witness ==
    /\ it.live
    /\ Len(Forward(ol, it.block)) = 3
    /\ Len(itLog) = 3
    /\ Len(Yields(itLog, "next")) = 2
    /\ Len(Yields(itLog, "next_back")) = 1
    /\ itLog[2].call = "next_back"
    /\ it.next = None /\ it.next_back = None

\* C11: while an iterator made by BasicBlock::iter over a list that is not
\* edited is stepped by next and next_back, its two cursors are both Some
\* or both None, and no expect of next or next_back has panicked.
C11_CursorsPaired ==
    it.live =>
        /\ (it.next = None) <=> (it.next_back = None)
        /\ ~it.fault

\* both cursors on the middle operation of a three-element list, after one
\* step from each end
C11_Witness ==
    /\ it.live
    /\ Len(Forward(ol, it.block)) = 3
    /\ Len(itLog) = 2
    /\ itLog[1].call = "next_back" /\ itLog[2].call = "next"
    /\ it.next = Forward(ol, it.block)[2]
    /\ it.next_back = it.next

\* C16: once an iterator over an n-element list that is not edited has
\* yielded n operations (at once when n = 0), every later call of next or
\* next_back returns None, none panics, and both cursors stay None.
C16_ExhaustedStaysExhausted ==
    it.live =>
        LET n == Len(Forward(ol, it.block))
        IN  /\ \A i \in 1..Len(itLog) : i > n => itLog[i].ret = None
            /\ Len(itLog) >= n =>
                  /\ it.next = None /\ it.next_back = None
                  /\ ~it.fault

\* a two-element list yielded from the back, then next and next_back both
\* called on the exhausted iterator
C16_Witness ==
    /\ it.live
    /\ Len(Forward(ol, it.block)) = 2
    /\ Len(itLog) = 4
    /\ itLog[1].call = "next_back" /\ itLog[2].call = "next_back"
    /\ itLog[3].call = "next" /\ itLog[3].ret = None
    /\ itLog[4].call = "next_back" /\ itLog[4].ret = None

\* C5: in every list reachable by insert_at_front, insert_at_back,
\* insert_after, insert_before and remove, the forward traversal of each
\* container is the reverse of its backward traversal, and head and tail
\* are both None exactly when no element is linked into the container.
C5_ForwardIsReverseOfBackward ==
    \A b \in Blocks :
        /\ Forward(ol, b) = Reverse(Backward(ol, b))
        /\ (get_head(ol, b) = None /\ get_tail(ol, b) = None)
              <=> ({o \in Ops : get_container(ol, o) = b} = {})
        /\ (get_head(ol, b) = None) <=> (get_tail(ol, b) = None)
        /\ Range(Forward(ol, b)) = {o \in Ops : get_container(ol, o) = b}

\* a list of three operations one of which was inserted in the middle
C5_Witness ==
    \E b \in Blocks : Forward(ol, b) = <<1, 3, 2>>

\* C13: BasicBlock::iter and the steps of its iterator leave the lists as
\* they are, and an iterator made over a block whose list was not edited
\* since an earlier iterator traversed it from head to tail yields, from the
\* front and from the back, the operations that traversal yielded, in the
\* same order, and returns None only when it has yielded all of them
\* (whatever other iterators were made and left unfinished in between).
C13_IterRestartable ==
    prevRun.block # None =>
        /\ ol = prevRun.list
        /\ (it.live /\ it.block = prevRun.block) =>
              LET F == prevRun.seq
                  fw == Yields(itLog, "next")
                  bw == Yields(itLog, "next_back")
              IN  /\ Len(fw) + Len(bw) <= Len(F)
                  /\ fw = SubSeq(F, 1, Len(fw))
                  /\ bw = SubSeq(Reverse(F), 1, Len(bw))
                  /\ (\E i \in 1..Len(itLog) : itLog[i].ret = None)
                        => Len(fw) + Len(bw) = Len(F)

\* a second complete traversal of a three-element list
C13_Witness ==
    /\ prevRun.block # None
    /\ Len(prevRun.seq) = 3
    /\ it.live /\ it.block = prevRun.block
    /\ CompleteForward(itLog)
    /\ Yields(itLog, "next") = prevRun.seq

\* what Iterator::last does when it is not overridden: next until it
\* returns None, keeping the last operation yielded
RECURSIVE LastByNext(_, _, _)
LastByNext(L, I, last) ==
    LET s == iter_next(L, I)
    IN  IF s.fault THEN [ret |-> None, fault |-> TRUE]
        ELSE IF s.ret = None THEN [ret |-> last, fault |-> FALSE]
        ELSE LastByNext(L, s.it, s.ret)

\* C17: on an iterator in any state reached by next and next_back over a
\* list that is not edited, Iter::last returns what repeated next would
\* yield last: the operation at next_back while operations remain, None
\* when none remain; and it does not panic.
C17_LastIsLastOfNext ==
    lastRes.from.live =>
        /\ ~lastRes.fault
        /\ lastRes.ret = LastByNext(ol, lastRes.from, None).ret
        /\ ~LastByNext(ol, lastRes.from, None).fault
        /\ lastRes.from.next # None => lastRes.ret = lastRes.from.next_back
        /\ lastRes.from.next = None => lastRes.ret = None

\* last called after one step from the front of a three-element list
C17_Witness ==
    /\ lastRes.from.live
    /\ Len(Forward(ol, lastRes.from.block)) = 3
    /\ lastRes.from.next = Forward(ol, lastRes.from.block)[2]
    /\ lastRes.from.next_back = Forward(ol, lastRes.from.block)[3]
    /\ lastRes.ret = lastRes.from.next_back

\* C14: a block just made by BasicBlock::new(ctx, label, arg_types) has an
\* empty op-list (head and tail None, its iterator yields nothing), no
\* region link (parent_region, prev_block, next_block None), no
\* predecessors and no attributes; it has one argument per entry of
\* arg_types, and the i-th (from 0) has an empty use-list, the block's own
\* handle as def_block, arg_idx i and the i-th type.
C14_NewBlockState ==
    \A b \in Blocks :
        bb[b].alloc =>
            /\ bb[b].self_ptr = b
            /\ get_head(ol, b) = None /\ get_tail(ol, b) = None
            /\ collect(ol, iter(ol, b)) = <<>>
            /\ get_container(rl, b) = None
            /\ get_prev(rl, b) = None /\ get_next(rl, b) = None
            /\ bb[b].preds = <<>>
            /\ bb[b].attributes = {}
            /\ Len(bb[b].args) = Len(given[b])
            /\ \A i \in 1..Len(given[b]) :
                  /\ bb[b].args[i].def = <<>>
                  /\ bb[b].args[i].def_block = b
                  /\ bb[b].args[i].arg_idx = i - 1
                  /\ bb[b].args[i].ty = given[b][i]

\* the last handle of the arena holds a block made with two different types
C14_Witness ==
    /\ bb[NumBlocks].alloc
    /\ given[NumBlocks] = <<2, 1>>
    /\ bb[NumBlocks].args[2].def_block = NumBlocks
    /\ bb[NumBlocks].args[2].ty = 1

(* ====================================================================== *)
(* Edits of a block's op-list while an iterator over it is live             *)
(* ====================================================================== *)

\* the operations the iterator under observation has yielded
Yielded == Range(Yields(itLog, "next")) \cup Range(Yields(itLog, "next_back"))

\* the operations from the forward cursor to the backward cursor, in list order
Ahead(L, I) ==
    IF I.next = None \/ I.next_back = None THEN <<>>
    ELSE LET chain == FollowNext(L, I.next, Cardinality(DOMAIN L.next) + 1)
             stops == {i \in 1..Len(chain) : chain[i] = I.next_back}
         IN  IF stops = {} THEN chain
             ELSE SubSeq(chain, 1, CHOOSE i \in stops : \A j \in stops : i <= j)

notLiveEdit == <<duVars, dlVars, bbVars, rgVars>>

\* an edit made on the op-list of the iterator's block between two steps of
\* the iterator: the list becomes newList; the log notes the operation
\* inserted or removed and whether the edit was made between the cursors
LiveEdit(newList, o, between) ==
    /\ ol' = newList
    /\ itLog' = Append(itLog, [call |-> IF between THEN "edit_between"
                                        ELSE "edit_outside",
                               ret |-> o])
    /\ vr' = NoVerify
    /\ prevRun' = NoRun
    /\ lastRes' = NoLast
    /\ UNCHANGED it
    /\ UNCHANGED notLiveEdit

\* an iterator is live and takes more calls, and none of the operations xs
\* (None for no operation) was yielded by it
LiveAndUnyielded(xs) ==
    /\ it.live /\ ~it.fault /\ Len(itLog) < MaxCalls
    /\ dl.pc = "idle"
    /\ xs \cap Yielded = {}

Live_insert_at_front(o) ==
    /\ LiveAndUnyielded({o, get_head(ol, it.block)})
    /\ Unlinked(ol, o)
    /\ LiveEdit(insert_at_front(ol, it.block, o), o, FALSE)

Live_insert_at_back(o) ==
    /\ LiveAndUnyielded({o, get_tail(ol, it.block)})
    /\ Unlinked(ol, o)
    /\ LiveEdit(insert_at_back(ol, it.block, o), o, FALSE)

Live_insert_after(o, mark) ==
    /\ LiveAndUnyielded({o, mark, get_next(ol, mark)})
    /\ Unlinked(ol, o)
    /\ get_container(ol, mark) = it.block
    /\ LiveEdit(insert_after(ol, o, mark), o,
                mark \in Range(Ahead(ol, it)) \ {it.next_back})

Live_insert_before(o, mark) ==
    /\ LiveAndUnyielded({o, mark, get_prev(ol, mark)})
    /\ Unlinked(ol, o)
    /\ get_container(ol, mark) = it.block
    /\ LiveEdit(insert_before(ol, o, mark), o,
                mark \in Range(Ahead(ol, it)) \ {it.next})

Live_remove(o) ==
    /\ LiveAndUnyielded({o, get_prev(ol, o), get_next(ol, o)})
    /\ get_container(ol, o) = it.block
    /\ LiveEdit(remove(ol, o), o,
                o \in Range(Ahead(ol, it)) \ {it.next, it.next_back})

IterMutateNext ==
    \/ \E b \in Blocks : BasicBlock_iter(b)
    \/ Iter_next
    \/ Iter_next_back
    \/ \E o \in Ops : Live_insert_at_front(o)
    \/ \E o \in Ops : Live_insert_at_back(o)
    \/ \E o \in Ops, mark \in Ops : Live_insert_after(o, mark)
    \/ \E o \in Ops, mark \in Ops : Live_insert_before(o, mark)
    \/ \E o \in Ops : Live_remove(o)

\* the log has an edit, and only edits of the kinds named, and the iterator
\* was stepped after the last of them
Edited(kinds) ==
    /\ \E i \in 1..Len(itLog) : itLog[i].call \in kinds
    /\ itLog[Len(itLog)].call \in {"next", "next_back"}
    /\ \A i \in 1..Len(itLog) :
          itLog[i].call \in {"edit_between", "edit_outside"} => itLog[i].call \in kinds

\* what the iterator has yielded, and where its cursors are, fits the list as
\* it is now: next has yielded a prefix of the head-to-tail order, next_back a
\* prefix of the tail-to-head order, no operation twice; both cursors are
\* Some while operations of the list are not yielded, both None when all
\* are, and None was returned only then; no call panicked
YieldsTheListAsItIs ==
    LET F == Forward(ol, it.block)
        fw == Yields(itLog, "next")
        bw == Yields(itLog, "next_back")
    IN  /\ ~it.fault
        /\ Len(fw) + Len(bw) <= Len(F)
        /\ fw = SubSeq(F, 1, Len(fw))
        /\ bw = SubSeq(Reverse(F), 1, Len(bw))
        /\ Len(fw) + Len(bw) < Len(F) => it.next # None /\ it.next_back # None
        /\ Len(fw) + Len(bw) = Len(F) => it.next = None /\ it.next_back = None
        /\ (\E i \in 1..Len(itLog) :
               itLog[i].call \in {"next", "next_back"} /\ itLog[i].ret = None)
              => Len(fw) + Len(bw) = Len(F)

\* C12 as stated: an iterator made before edits that touch only operations
\* it has not yielded, and stepped after them, yields the operations of
\* the list as it is after the edits.
C12_YieldsPostMutationList ==
    (it.live /\ Edited({"edit_between", "edit_outside"})) => YieldsTheListAsItIs

\* C12 amended: an iterator made before edits that insert or remove an
\* operation between its two cursors (an insert after an operation from
\* next up to the one before next_back, or before one from the one after
\* next up to next_back; a remove of an operation after next and before
\* next_back), and stepped after them, yields the operations of the list
\* as it is after the edits.
C12_YieldsListEditedBetweenCursors ==
    (it.live /\ Edited({"edit_between"})) => YieldsTheListAsItIs

\* an operation inserted into a two-element list before the first step, and
\* yielded second of three
C12_Witness ==
    /\ it.live
    /\ Len(itLog) = 4
    /\ itLog[1].call = "edit_between"
    /\ Edited({"edit_between"})
    /\ Len(Yields(itLog, "next")) = 3
    /\ Yields(itLog, "next")[2] = itLog[1].ret
    /\ it.next = None

(* ====================================================================== *)
(* Specifications                                                           *)
(* ====================================================================== *)

OpInit ==
    /\ ol = EmptyLinks(Blocks, Ops)
    /\ it = NoIter
    /\ itLog = <<>>
    /\ prevRun = NoRun
    /\ lastRes = NoLast
    /\ vr = NoVerify
    /\ opArena = Ops
    /\ dl = NoDealloc

\* all blocks allocated by BasicBlock::new(ctx, None, vec![]) and in no region
BlocksInit ==
    /\ bb = [b \in Blocks |-> new(b, None, <<>>)]
    /\ given = [b \in Blocks |-> <<>>]
    /\ rl = EmptyLinks(Regions, Blocks)
    /\ lastCall = NoCall

\* All operations and blocks are allocated, no operation is linked into a
\* block, no block into a region, and no operand is built.
ModelInit == DUInit /\ OpInit /\ BlocksInit

\* the def-use graph
SpecDefUse == ModelInit /\ [][DUNext]_vars

\* the operations of blocks: list edits and the iterator
SpecOpList == ModelInit /\ [][OpNext]_vars

\* list edits and BasicBlock::verify
SpecVerify == ModelInit /\ [][VerifyNext]_vars

\* list edits and the deallocation of a block
SpecDealloc == ModelInit /\ [][DeallocNext]_vars

RECURSIVE Filled(_, _)
\* the lists after operations 1..m were put into block b by insert_at_back
Filled(b, m) ==
    IF m = 0 THEN EmptyLinks(Blocks, Ops) ELSE insert_at_back(Filled(b, m - 1), b, m)

\* one block holds some operations, in the order they were inserted at the
\* back; no iterator was made yet
IterMutateInit ==
    /\ DUInit /\ BlocksInit
    /\ ol \in {Filled(b, m) : b \in Blocks, m \in 0..NumOps}
    /\ it = NoIter
    /\ itLog = <<>>
    /\ prevRun = NoRun
    /\ lastRes = NoLast
    /\ vr = NoVerify
    /\ opArena = Ops
    /\ dl = NoDealloc

\* one iterator, and list edits between its steps
SpecIterMutate == IterMutateInit /\ [][IterMutateNext]_vars

\* the blocks of regions: list edits
SpecRegion == ModelInit /\ [][RegionNext]_vars

\* no block allocated yet
BlockArgsInit ==
    /\ DUInit /\ OpInit
    /\ bb = [b \in Blocks |-> NoBlock]
    /\ given = [b \in Blocks |-> <<>>]
    /\ rl = EmptyLinks(Regions, Blocks)
    /\ lastCall = NoCall

\* the creation of blocks and their arguments
SpecBlockArgs == BlockArgsInit /\ [][BlockArgsNext]_vars

Spec == SpecDefUse

====
